---------------------------- MODULE Spec2Model ----------------------------
(***************************************************************************)
(* A model of goldmark's util package (src/util/util.go):                  *)
(*   - bytesFilter (NewBytesFilter / Add / Extend / Contains) over a heap  *)
(*     of Go slices, so that backing arrays shared by two slice headers    *)
(*     are visible;                                                        *)
(*   - CopyOnWriteBuffer;                                                  *)
(*   - the byte scanners built on it.                                      *)
(* Bytes are the integers 0..255, byte slices are sequences of bytes.      *)
(***************************************************************************)
EXTENDS Integers, Sequences, FiniteSets, TLC

VARIABLES
  filters,  \* bytesFilter objects, by id: [chars, threshold, slots]
  heap,     \* backing arrays of the slots' [][]byte slices, by array id
  meta,     \* history of each filter: how it was made, what was added to it
  nOps,     \* number of Add and Extend calls made so far
  thr,      \* the goroutines running Add concurrently: position and locals
  bmem,     \* backing arrays of the []byte slices, by array id
  cob,      \* a CopyOnWriteBuffer: [buffer (a slice header), copied]
  log,      \* the calls made on cob, in order
  scan      \* the running transformation: function, input, position, locals

vars == <<filters, heap, meta, nOps, thr, bmem, cob, log, scan>>

\* What the steps of one part of the model leave alone.
notFilter == <<thr, bmem, cob, log, scan>>
notConc == <<meta, nOps, bmem, cob, log, scan>>
notCow == <<filters, heap, meta, nOps, thr, scan>>
notScan == <<filters, heap, meta, nOps, thr>>

\* The values of the variables a specification does not use.
NoFilter ==
  /\ filters = <<>> /\ heap = <<>> /\ meta = <<>> /\ nOps = 0 /\ thr = <<>>

NoBuffer ==
  /\ bmem = <<>> /\ cob = <<>> /\ log = <<>> /\ scan = <<>>

-----------------------------------------------------------------------------
(* Bounds of the model *)

MaxOps == 3

(* Program constants *)

NumSlots == 64
Threshold == 3
HashSeed == 5381

Byte == 0..255

\* The byte sequences given to the filter operations, and asked of Contains.
\* <<97>> and <<33>> hash to one bucket (their bytes differ by 64); the last
\* is longer than the mask prefix.
Elems == { <<>>, <<97>>, <<33>>, <<33, 97, 98, 33>> }

\* The element lists given to Extend.
ExtendLists == { <<>> } \cup { <<e>> : e \in Elems }

\* The element lists given to NewBytesFilter: buckets of 0, 1, 2 and 3
\* elements, one bucket or several.
SeedLists ==
  { <<>>, << <<97>> >>, << <<97>>, <<33>> >>, << <<97>>, <<97>>, <<97>> >>,
    << <<33, 97, 98, 33>>, <<>>, <<97>> >> }

\* The byte sequences asked of Contains: those given, and some never given
\* (<<161>> hashes to the bucket of <<97>> and <<33>>).
Probes == Elems \cup { <<161>>, <<33, 97>> }

Range(seq) == { seq[i] : i \in 1..Len(seq) }

Min(a, b) == IF a < b THEN a ELSE b

-----------------------------------------------------------------------------
(* uint64 arithmetic, on four 16-bit limbs (least significant first) *)

Limb == 65536

U64Norm(l) ==
  LET a1 == l[1]
      a2 == l[2] + (a1 \div Limb)
      a3 == l[3] + (a2 \div Limb)
      a4 == l[4] + (a3 \div Limb)
  IN  <<a1 % Limb, a2 % Limb, a3 % Limb, a4 % Limb>>

U64(n) == U64Norm(<<n, 0, 0, 0>>)

U64Add(a, b) == U64Norm(<<a[1] + b[1], a[2] + b[2], a[3] + b[3], a[4] + b[4]>>)

U64Shl5(a) == U64Norm(<<a[1] * 32, a[2] * 32, a[3] * 32, a[4] * 32>>)

U64Mod(a, n) ==
  LET r4 == a[4] % n
      r3 == (r4 * Limb + a[3]) % n
      r2 == (r3 * Limb + a[2]) % n
  IN  (r2 * Limb + a[1]) % n

\* hash = ((hash << 5) + hash) + uint64(c), from 5381
RECURSIVE HashFrom(_, _, _)
HashFrom(hash, b, i) ==
  IF i > Len(b) THEN hash
  ELSE HashFrom(U64Add(U64Add(U64Shl5(hash), hash), U64(b[i])), b, i + 1)

bytesHash(b) == HashFrom(U64(HashSeed), b, 1)

-----------------------------------------------------------------------------
(* uint8 bit operations *)

Bit(x, k) == (x \div (2 ^ k)) % 2

BitOr(x, y) ==
  LET F[k \in 0..8] ==
        IF k = 8 THEN 0
        ELSE (IF Bit(x, k) = 1 \/ Bit(y, k) = 1 THEN 2 ^ k ELSE 0) + F[k + 1]
  IN  F[0]

BitAnd(x, y) ==
  LET F[k \in 0..8] ==
        IF k = 8 THEN 0
        ELSE (IF Bit(x, k) = 1 /\ Bit(y, k) = 1 THEN 2 ^ k ELSE 0) + F[k + 1]
  IN  F[0]

\* 1 << uint8(i), kept in a uint8
Shl8(i) == (2 ^ i) % 256

-----------------------------------------------------------------------------
(* Go slices of byte slices: a header [arr, len, cap] into heap[arr] *)

NilSlice == [arr |-> 0, len |-> 0, cap |-> 0]

\* The elements a slice header shows.
SliceElems(hp, s) == IF s.len = 0 THEN <<>> ELSE SubSeq(hp[s.arr], 1, s.len)

\* Capacity of the array append allocates when the old one is full: the
\* runtime doubles a small slice (0 -> 1 -> 2 -> 4 -> 8 ...).
GrowCap(oldcap, needed) ==
  IF needed > 2 * oldcap THEN needed ELSE 2 * oldcap

\* append(s, b): in place when the capacity allows, else into a new array.
\* Yields the new heap and the new header.
AppendSlice(hp, s, b) ==
  IF s.len < s.cap
  THEN [heap |-> [hp EXCEPT ![s.arr][s.len + 1] = b],
        slice |-> [s EXCEPT !.len = s.len + 1]]
  ELSE LET newcap == GrowCap(s.cap, s.len + 1)
           arr == [k \in 1..newcap |->
                     IF k <= s.len THEN hp[s.arr][k]
                     ELSE IF k = s.len + 1 THEN b ELSE <<>>]
       IN  [heap |-> Append(hp, arr),
            slice |-> [arr |-> Len(hp) + 1, len |-> s.len + 1, cap |-> newcap]]

-----------------------------------------------------------------------------
(* bytesFilter *)

\* &bytesFilter{threshold: 3, slots: make([][][]byte, 64)}
EmptyFilter ==
  [chars |-> [c \in Byte |-> 0],
   threshold |-> Threshold,
   slots |-> [k \in 0..(NumSlots - 1) |-> NilSlice]]

\* for i := 0; i < m; i++ { s.chars[b[i]] |= 1 << uint8(i) }
RECURSIVE MaskLoop(_, _, _, _)
MaskLoop(chars, b, i, m) ==
  IF i >= m THEN chars
  ELSE MaskLoop([chars EXCEPT ![b[i + 1]] = BitOr(@, Shl8(i))], b, i + 1, m)

\* s.Add(b) on the store st = [filters, heap]
AddOverwritesSlot(st, id, b) ==
  LET s == st.filters[id]
      m == IF Len(b) < s.threshold THEN Len(b) ELSE s.threshold
      chars == MaskLoop(s.chars, b, 0, m)
      h == U64Mod(bytesHash(b), NumSlots)
      r == AppendSlice(st.heap, NilSlice, b)
  IN  [filters |-> [st.filters EXCEPT ![id] =
                      [s EXCEPT !.chars = chars, !.slots[h] = r.slice]],
       heap |-> r.heap]

AddTo(st, id, b) ==
  LET s == st.filters[id]
      m == IF Len(b) < s.threshold THEN Len(b) ELSE s.threshold
      chars == MaskLoop(s.chars, b, 0, m)
      h == U64Mod(bytesHash(b), NumSlots)
      slot == s.slots[h]
      r == AppendSlice(st.heap, slot, b)
  IN  [filters |-> [st.filters EXCEPT ![id] =
                      [s EXCEPT !.chars = chars, !.slots[h] = r.slice]],
       heap |-> r.heap]

\* for _, element := range elements { s.Add(element) }
RECURSIVE AddAll(_, _, _, _)
AddAll(st, id, bs, i) ==
  IF i > Len(bs) THEN st ELSE AddAll(AddTo(st, id, bs[i]), id, bs, i + 1)

\* s.Contains(b), for the filter value s and the heap hp
ContainsSkipsCompare(s, hp, b) ==
  LET m == IF Len(b) < s.threshold THEN Len(b) ELSE s.threshold
      h == U64Mod(bytesHash(b), NumSlots)
      slot == s.slots[h]
  IN  IF \E i \in 0..(m - 1) : BitAnd(s.chars[b[i + 1]], Shl8(i)) = 0
      THEN FALSE
      ELSE slot.len # 0

FilterContains(s, hp, b) ==
  LET m == IF Len(b) < s.threshold THEN Len(b) ELSE s.threshold
      h == U64Mod(bytesHash(b), NumSlots)
      slot == s.slots[h]
  IN  IF \E i \in 0..(m - 1) : BitAnd(s.chars[b[i + 1]], Shl8(i)) = 0
      THEN FALSE
      ELSE IF slot.len = 0 THEN FALSE
      ELSE \E k \in 1..slot.len : hp[slot.arr][k] = b

Contains(id, b) == FilterContains(filters[id], heap, b)

\* s.Extend(bs...): the store after it; the new filter is the last one.
\* newSlot is a copy of v that is dropped at the end of the iteration: the
\* new filter's slot k is v itself, the header of the receiver's slot.
ExtendAddsToReceiver(st, id, bs) ==
  LET s == st.filters[id]
      newFilter == [EmptyFilter EXCEPT
                      !.chars = s.chars,
                      !.threshold = s.threshold,
                      !.slots = [k \in 0..(NumSlots - 1) |-> s.slots[k]]]
      st1 == [filters |-> Append(st.filters, newFilter), heap |-> st.heap]
  IN  AddAll(st1, id, bs, 1)

ExtendTo(st, id, bs) ==
  LET s == st.filters[id]
      newFilter == [EmptyFilter EXCEPT
                      !.chars = s.chars,
                      !.threshold = s.threshold,
                      !.slots = [k \in 0..(NumSlots - 1) |-> s.slots[k]]]
      st1 == [filters |-> Append(st.filters, newFilter), heap |-> st.heap]
  IN  AddAll(st1, Len(st1.filters), bs, 1)



\* NewBytesFilter(elements...): the store with the new filter added last.
NewFilter(st, elements) ==
  LET st1 == [filters |-> Append(st.filters, EmptyFilter), heap |-> st.heap]
  IN  AddAll(st1, Len(st1.filters), elements, 1)

-----------------------------------------------------------------------------
(* The filter operations as steps; meta and op record the history. *)

Store == [filters |-> filters, heap |-> heap]

\* Whether what filter g shows (its mask, the elements of its buckets) is
\* different in the store st from what it is now.
ViewChanged(st, g) ==
  \/ st.filters[g].chars # filters[g].chars
  \/ \E k \in 0..(NumSlots - 1) :
       /\ st.filters[g].slots[k].len + filters[g].slots[k].len > 0
       /\ SliceElems(st.heap, st.filters[g].slots[k])
            # SliceElems(heap, filters[g].slots[k])

\* History of the filters that exist before a step by another operation than
\* an Add on themselves: foreign says whether such a step changed their view.
Witnessed(st, g) ==
  [meta[g] EXCEPT !.foreign = @ \/ ViewChanged(st, g)]

Init ==
  \E seeds \in SeedLists :
    LET st == NewFilter([filters |-> <<>>, heap |-> <<>>], seeds)
    IN  /\ filters = st.filters
        /\ heap = st.heap
        /\ meta = << [base |-> 0, given |-> seeds, added |-> Range(seeds),
                      adds |-> 0, foreign |-> FALSE, intact |-> TRUE] >>
        /\ nOps = 0
        /\ thr = <<>>
        /\ NoBuffer

Add(f, b) ==
  /\ nOps < MaxOps
  /\ LET st == AddTo(Store, f, b)
     IN  /\ filters' = st.filters
         /\ heap' = st.heap
         /\ meta' = [g \in 1..Len(meta) |->
                       IF g = f
                       THEN [meta[g] EXCEPT !.added = @ \cup {b}, !.adds = @ + 1]
                       ELSE [Witnessed(st, g) EXCEPT
                               !.intact = @ /\ meta[g].base # f]]
  /\ nOps' = nOps + 1
  /\ UNCHANGED notFilter

Extend(f, bs) ==
  /\ nOps < MaxOps
  /\ LET st == ExtendTo(Store, f, bs)
     IN  /\ filters' = st.filters
         /\ heap' = st.heap
         /\ meta' = Append([g \in 1..Len(meta) |-> Witnessed(st, g)],
                           [base |-> f, given |-> bs, added |-> {},
                            adds |-> 0, foreign |-> FALSE, intact |-> TRUE])
  /\ nOps' = nOps + 1
  /\ UNCHANGED notFilter

Next ==
  \/ \E f \in 1..Len(filters), b \in Elems : Add(f, b)
  \/ \E f \in 1..Len(filters), bs \in ExtendLists : Extend(f, bs)

Spec == Init /\ [][Next]_vars


-----------------------------------------------------------------------------
(* Properties of the filter *)

FilterIds == 1..Len(filters)

\* The bucket of b in filter id.
SlotOf(id, b) == filters[id].slots[U64Mod(bytesHash(b), NumSlots)]

\* An Add on filter f is the step that raises meta[f].adds; an Extend is the
\* step that makes a new filter, whose meta names its base and its arguments.
AddedTo(f) == meta'[f].adds > meta[f].adds

Extended == Len(filters') > Len(filters)

\* C1: after F2 = F1.Extend(xs...), with F2 left alone, no Add on F1 changes
\* any answer of F2.Contains.
C1_CloneUnchangedByAddOnOriginal ==
  [][\A f \in FilterIds :
       AddedTo(f) =>
         \A g \in FilterIds :
           (meta[g].base = f /\ meta[g].adds = 0) =>
             \A x \in Probes :
               FilterContains(filters'[g], heap', x) = Contains(g, x)]_vars

C3_CloneHoldsOriginalAndGiven ==
  [][Extended =>
       LET g == Len(filters')
       IN  \A x \in Probes :
             FilterContains(filters'[g], heap', x)
               <=> (Contains(meta'[g].base, x) \/ x \in Range(meta'[g].given))]_vars

\* A filter made by NewBytesFilter whose view only its own Adds changed.
OwnFilter(f) == meta[f].base = 0 /\ ~meta[f].foreign

\* C4: a filter made by NewBytesFilter and changed only by its own Adds
\* contains every seed and every sequence added to it, at any later time.
C4_NoFalseNegative ==
  \A f \in FilterIds :
    OwnFilter(f) => \A b \in meta[f].added : Contains(f, b)

\* C4 witness: such a filter after an Add, holding the empty sequence, a
\* sequence shorter than the mask prefix, a longer one, and two in one bucket.
C4_Witness ==
  \E f \in FilterIds :
    /\ OwnFilter(f)
    /\ meta[f].adds > 0
    /\ {<<>>, <<97>>, <<33>>, <<33, 97, 98, 33>>} \subseteq meta[f].added
    /\ SlotOf(f, <<97>>).len >= 2

\* C5: a filter made by NewBytesFilter and changed only by its own Adds
\* contains only the seeds and the sequences added to it.
C5_NoWrongPositive ==
  \A f \in FilterIds :
    OwnFilter(f) => \A x \in Probes : Contains(f, x) => x \in meta[f].added

\* Whether x passes the prefix mask of filter f.
PassesMask(f, x) ==
  \A i \in 0..(Min(Len(x), filters[f].threshold) - 1) :
    BitAnd(filters[f].chars[x[i + 1]], Shl8(i)) # 0

\* C5 witness: a sequence never added passes the mask and falls into a
\* bucket that is not empty, and is not contained.
C5_Witness ==
  \E f \in FilterIds, x \in Probes :
    /\ OwnFilter(f)
    /\ meta[f].adds > 0
    /\ x \notin meta[f].added
    /\ Len(x) > 0
    /\ PassesMask(f, x)
    /\ SlotOf(f, x).len > 0
    /\ ~Contains(f, x)

-----------------------------------------------------------------------------
(* Two goroutines call Add on one filter with no synchronization: each     *)
(* read and each write of the mask table and of the bucket list is a step. *)

Threads == {1, 2}

pcOf(t) == thr[t].pc

InitConc ==
  \E seeds \in SeedLists, b1 \in Elems, b2 \in Elems :
    LET st == NewFilter([filters |-> <<>>, heap |-> <<>>], seeds)
        local(b) == [pc |-> "loop", b |-> b, i |-> 0, c |-> 0,
                     slot |-> NilSlice]
    IN  /\ filters = st.filters
        /\ heap = st.heap
        /\ meta = << [base |-> 0, given |-> seeds, added |-> Range(seeds),
                      adds |-> 0, foreign |-> FALSE, intact |-> TRUE] >>
        /\ nOps = 0
        /\ thr = [t \in Threads |-> IF t = 1 THEN local(b1) ELSE local(b2)]
        /\ NoBuffer

\* m: the number of leading bytes of b that go into the mask
MaskLen(s, b) == IF Len(b) < s.threshold THEN Len(b) ELSE s.threshold

\* s.chars[b[i]] |= 1 << uint8(i): the read of s.chars[b[i]]
MaskRead(t) ==
  /\ pcOf(t) = "loop"
  /\ thr[t].i < MaskLen(filters[1], thr[t].b)
  /\ thr' = [thr EXCEPT ![t].c = filters[1].chars[thr[t].b[thr[t].i + 1]],
                        ![t].pc = "maskWrite"]
  /\ UNCHANGED <<filters, heap>>
  /\ UNCHANGED notConc

\* s.chars[b[i]] |= 1 << uint8(i): the write, and i++
MaskWrite(t) ==
  /\ pcOf(t) = "maskWrite"
  /\ filters' = [filters EXCEPT ![1].chars[thr[t].b[thr[t].i + 1]] =
                   BitOr(thr[t].c, Shl8(thr[t].i))]
  /\ thr' = [thr EXCEPT ![t].i = @ + 1, ![t].pc = "loop"]
  /\ UNCHANGED heap
  /\ UNCHANGED notConc

\* slot := s.slots[h]
SlotRead(t) ==
  /\ pcOf(t) = "loop"
  /\ thr[t].i >= MaskLen(filters[1], thr[t].b)
  /\ thr' = [thr EXCEPT
               ![t].slot = filters[1].slots[U64Mod(bytesHash(thr[t].b), NumSlots)],
               ![t].pc = "append"]
  /\ UNCHANGED <<filters, heap>>
  /\ UNCHANGED notConc

\* append(slot, b), into the goroutine's own header
SlotAppend(t) ==
  /\ pcOf(t) = "append"
  /\ LET r == AppendSlice(heap, thr[t].slot, thr[t].b)
     IN  /\ heap' = r.heap
         /\ thr' = [thr EXCEPT ![t].slot = r.slice, ![t].pc = "store"]
  /\ UNCHANGED filters
  /\ UNCHANGED notConc

\* s.slots[h] = the appended header
SlotWrite(t) ==
  /\ pcOf(t) = "store"
  /\ filters' = [filters EXCEPT
                   ![1].slots[U64Mod(bytesHash(thr[t].b), NumSlots)] = thr[t].slot]
  /\ thr' = [thr EXCEPT ![t].pc = "done"]
  /\ UNCHANGED heap
  /\ UNCHANGED notConc

NextConc ==
  \E t \in Threads :
    \/ MaskRead(t)
    \/ MaskWrite(t)
    \/ SlotRead(t)
    \/ SlotAppend(t)
    \/ SlotWrite(t)

SpecConc == InitConc /\ [][NextConc]_vars

\* C6: when two concurrent Adds on one filter have both returned, the filter
\* contains both sequences.
C6_ConcurrentAddsKeepBoth ==
  (\A t \in Threads : pcOf(t) = "done")
    => \A t \in Threads : Contains(1, thr[t].b)

-----------------------------------------------------------------------------
(* []byte slices: a header [arr, off, len, cap] into bmem[arr]; the slice
   starts off bytes into the array *)

\* The bytes a slice header shows.
SliceBytes(mem, s) ==
  IF s.len = 0 THEN <<>> ELSE SubSeq(mem[s.arr], s.off + 1, s.off + s.len)

\* make([]byte, n, c): a new zeroed array; yields the memory and the header.
MakeBytes(mem, n, c) ==
  [mem |-> Append(mem, [k \in 1..c |-> 0]),
   slice |-> [arr |-> Len(mem) + 1, off |-> 0, len |-> n, cap |-> c]]

\* The allocator's size classes for small objects.
SizeClasses == {8, 16, 24, 32, 48, 64, 80, 96, 112, 128}

\* Capacity of the array append allocates for a []byte that is full.
GrowCapBytes(oldcap, needed) ==
  LET want == IF needed > 2 * oldcap THEN needed ELSE 2 * oldcap
      fit == { c \in SizeClasses : c >= want }
  IN  IF fit = {} THEN want ELSE CHOOSE c \in fit : \A d \in fit : c <= d

\* append(s, v...): in place when the capacity allows, else into a new array.
AppendBytes(mem, s, v) ==
  IF s.len + Len(v) <= s.cap
  THEN [mem |-> [mem EXCEPT ![s.arr] =
                   [k \in 1..Len(mem[s.arr]) |->
                      IF k > s.off + s.len /\ k <= s.off + s.len + Len(v)
                      THEN v[k - (s.off + s.len)]
                      ELSE mem[s.arr][k]]],
        slice |-> [s EXCEPT !.len = s.len + Len(v)]]
  ELSE LET newcap == GrowCapBytes(s.cap, s.len + Len(v))
           arr == [k \in 1..newcap |->
                     IF k <= s.len THEN mem[s.arr][s.off + k]
                     ELSE IF k <= s.len + Len(v) THEN v[k - s.len] ELSE 0]
       IN  [mem |-> Append(mem, arr),
            slice |-> [arr |-> Len(mem) + 1, off |-> 0,
                       len |-> s.len + Len(v), cap |-> newcap]]

\* copy(dst, src), for len(dst) = len(src)
CopyBytes(mem, dst, src) ==
  [mem EXCEPT ![dst.arr] =
     [k \in 1..Len(mem[dst.arr]) |->
        IF k > dst.off /\ k <= dst.off + src.len
        THEN mem[src.arr][src.off + (k - dst.off)]
        ELSE mem[dst.arr][k]]]

-----------------------------------------------------------------------------
(* CopyOnWriteBuffer, on the store st = [mem, cob] *)

\* The slack Write and Append give the buffer they allocate.
Slack == 20

\* NewCopyOnWriteBuffer(buffer)
NewCopyOnWriteBuffer(buffer) == [buffer |-> buffer, copied |-> FALSE]

\* b.Write(value)
CobWriteKeepsContent(st, value) ==
  LET r == AppendBytes(st.mem, st.cob.buffer, value)
  IN  [mem |-> r.mem, cob |-> [buffer |-> r.slice, copied |-> TRUE]]

CobWrite(st, value) ==
  LET a == IF ~st.cob.copied
           THEN MakeBytes(st.mem, 0, st.cob.buffer.len + Slack)
           ELSE [mem |-> st.mem, slice |-> st.cob.buffer]
      r == AppendBytes(a.mem, a.slice, value)
  IN  [mem |-> r.mem, cob |-> [buffer |-> r.slice, copied |-> TRUE]]

\* b.Append(value)
CobAppendInPlace(st, value) ==
  LET r == AppendBytes(st.mem, st.cob.buffer, value)
  IN  [mem |-> r.mem, cob |-> [buffer |-> r.slice, copied |-> TRUE]]

CobAppend(st, value) ==
  LET a == IF ~st.cob.copied
           THEN LET t == MakeBytes(st.mem, st.cob.buffer.len,
                                   st.cob.buffer.len + Slack)
                IN  [mem |-> CopyBytes(t.mem, t.slice, st.cob.buffer),
                     slice |-> t.slice]
           ELSE [mem |-> st.mem, slice |-> st.cob.buffer]
      r == AppendBytes(a.mem, a.slice, value)
  IN  [mem |-> r.mem, cob |-> [buffer |-> r.slice, copied |-> TRUE]]

\* b.WriteByte(c)
CobWriteByte(st, c) ==
  LET a == IF ~st.cob.copied
           THEN MakeBytes(st.mem, 0, st.cob.buffer.len + Slack)
           ELSE [mem |-> st.mem, slice |-> st.cob.buffer]
      r == AppendBytes(a.mem, a.slice, <<c>>)
  IN  [mem |-> r.mem, cob |-> [buffer |-> r.slice, copied |-> TRUE]]

\* b.AppendByte(c)
CobAppendByte(st, c) ==
  LET a == IF ~st.cob.copied
           THEN LET t == MakeBytes(st.mem, st.cob.buffer.len,
                                   st.cob.buffer.len + Slack)
                IN  [mem |-> CopyBytes(t.mem, t.slice, st.cob.buffer),
                     slice |-> t.slice]
           ELSE [mem |-> st.mem, slice |-> st.cob.buffer]
      r == AppendBytes(a.mem, a.slice, <<c>>)
  IN  [mem |-> r.mem, cob |-> [buffer |-> r.slice, copied |-> TRUE]]

\* StringToReadOnlyBytes(value): the bytes of the string, not copied
StringToReadOnlyBytes(value) == value

\* b.WriteString(value)
CobWriteString(st, value) == CobWrite(st, StringToReadOnlyBytes(value))

\* b.AppendString(value)
CobAppendString(st, value) == CobAppend(st, StringToReadOnlyBytes(value))

\* b.Bytes()
CobBytes(st) == st.cob.buffer

\* b.IsCopied()
CobIsCopied(st) == st.cob.copied

-----------------------------------------------------------------------------
(* A CopyOnWriteBuffer over an input slice, and any calls on it *)

MaxCalls == 3

\* The input slices: the array behind each and the length of the slice
\* (a slice may end before its array does).
CowInputs ==
  { [arr |-> <<>>, len |-> 0], [arr |-> <<104>>, len |-> 1],
    [arr |-> <<104, 105, 33>>, len |-> 2] }

CowValues == { <<>>, <<120>>, <<121, 122>> }

CowChars == { 119 }

\* The slice given to NewCopyOnWriteBuffer: array 1
InputSlice == [arr |-> 1, off |-> 0, len |-> scan.len, cap |-> Len(scan.arr)]

BufStore == [mem |-> bmem, cob |-> cob]

InitCow ==
  /\ NoFilter
  /\ \E in \in CowInputs :
       /\ bmem = << in.arr >>
       /\ scan = in
       /\ cob = NewCopyOnWriteBuffer([arr |-> 1, off |-> 0, len |-> in.len,
                                      cap |-> Len(in.arr)])
  /\ log = <<>>

Called(st, kind, arg) ==
  /\ Len(log) < MaxCalls
  /\ bmem' = st.mem
  /\ cob' = st.cob
  /\ log' = Append(log, [kind |-> kind, arg |-> arg])
  /\ UNCHANGED notCow

Write(value) == Called(CobWrite(BufStore, value), "Write", value)

WriteString(value) == Called(CobWriteString(BufStore, value), "Write", value)

Append_(value) == Called(CobAppend(BufStore, value), "Append", value)

AppendString(value) == Called(CobAppendString(BufStore, value), "Append", value)

WriteByte(c) == Called(CobWriteByte(BufStore, c), "Write", <<c>>)

AppendByte(c) == Called(CobAppendByte(BufStore, c), "Append", <<c>>)

NextCow ==
  \/ \E value \in CowValues : Write(value)
  \/ \E value \in CowValues : WriteString(value)
  \/ \E value \in CowValues : Append_(value)
  \/ \E value \in CowValues : AppendString(value)
  \/ \E c \in CowChars : WriteByte(c)
  \/ \E c \in CowChars : AppendByte(c)

SpecCow == InitCow /\ [][NextCow]_vars

\* b.Bytes(), as bytes
Bytes == SliceBytes(bmem, CobBytes(BufStore))

\* C7: IsCopied() is false exactly when no Write* or Append* call has been
\* made; while it is false Bytes() is the slice given to
\* NewCopyOnWriteBuffer, with its bytes; once true it stays true; and the
\* array behind the input slice is never modified.
C7_Lifecycle ==
  /\ [](/\ CobIsCopied(BufStore) <=> log # <<>>
        /\ ~CobIsCopied(BufStore) =>
             (CobBytes(BufStore) = InputSlice /\ Bytes = SubSeq(scan.arr, 1, scan.len))
        /\ bmem[1] = scan.arr)
  /\ [][CobIsCopied(BufStore) => cob'.copied]_vars

\* C7 witness: after a call that wrote nothing and further calls, the buffer
\* is copied and is another array than the input, which has spare capacity.
C7_Witness ==
  /\ Len(log) >= 2
  /\ log[1].arg = <<>>
  /\ cob.copied
  /\ cob.buffer.arr # 1
  /\ Len(scan.arr) > scan.len
  /\ Bytes # SubSeq(scan.arr, 1, scan.len)

RECURSIVE ConcatArgs(_, _)
ConcatArgs(calls, i) ==
  IF i > Len(calls) THEN <<>> ELSE calls[i].arg \o ConcatArgs(calls, i + 1)

\* C8: a first Write(v) or WriteByte(c) leaves exactly v (or c), a first
\* Append(v) or AppendByte(c) leaves the input followed by v (or c), and
\* every later call appends its argument.
C8_FirstMutation ==
  log # <<>> =>
    Bytes = (IF log[1].kind = "Write" THEN <<>> ELSE SubSeq(scan.arr, 1, scan.len))
              \o ConcatArgs(log, 1)

\* C8 witness: a non-empty input, a first Write of a non-empty value, then
\* an Append and a Write.
C8_Witness ==
  /\ scan.len > 0
  /\ Len(log) = 3
  /\ log[1].kind = "Write" /\ log[1].arg # <<>>
  /\ log[2].kind = "Append" /\ log[2].arg # <<>>
  /\ log[3].kind = "Write" /\ log[3].arg # <<>>

-----------------------------------------------------------------------------
(* Byte classes *)

Upper(c) == c \in 65..90
Lower(c) == c \in 97..122

\* spaceTable[c] == 1
IsSpace(c) == c \in {9, 10, 13, 32}

\* punctTable[c] == 1
IsPunct(c) == c \in (33..47) \cup (58..64) \cup (91..96) \cup (123..126)

IsNumeric(c) == c \in 48..57

IsHexDecimal(c) == c \in 48..57 \/ c \in 97..102 \/ c \in 65..70

IsAlphaNumeric(c) == Lower(c) \/ Upper(c) \/ c \in 48..57

\* urlEscapeTable[c] == 1
UrlSafe(c) ==
  c \in {33, 35, 36, 61, 95, 126} \cup (38..59) \cup (63..90) \cup (97..122)

\* utf8lenTable[c]
Utf8Len(c) ==
  IF c <= 127 THEN 1
  ELSE IF c <= 193 THEN 99
  ELSE IF c <= 223 THEN 2
  ELSE IF c <= 239 THEN 3
  ELSE IF c <= 247 THEN 4
  ELSE 99

\* htmlEscapeTable[c], <<>> for nil
HtmlEscape(c) ==
  IF c = 34 THEN <<38, 113, 117, 111, 116, 59>>
  ELSE IF c = 38 THEN <<38, 97, 109, 112, 59>>
  ELSE IF c = 60 THEN <<38, 108, 116, 59>>
  ELSE IF c = 62 THEN <<38, 103, 116, 59>>
  ELSE <<>>

\* htmlSpace
HtmlSpace == <<37, 50, 48>>

\* s[a:b] of a Go slice or string given as its bytes (0-based, b excluded)
Sub(s, a, b) == IF b <= a THEN <<>> ELSE SubSeq(s, a + 1, b)

-----------------------------------------------------------------------------
(* The standard library, as far as the transformations call it *)

\* rune(0xFFFD), utf8.RuneError
RuneError == 65533

\* utf8.ValidRune(r)
ValidRune(r) == (0 <= r /\ r < 55296) \/ (57343 < r /\ r <= 1114111)

\* utf8.RuneStart(b)
RuneStart(b) == b \notin 128..191

\* utf8.EncodeRune(buf, r): the bytes written, buf[:l]
EncodeRune(r) ==
  IF r < 0 \/ r > 1114111 \/ r \in 55296..57343 THEN <<239, 191, 189>>
  ELSE IF r <= 127 THEN <<r>>
  ELSE IF r <= 2047 THEN <<192 + (r \div 64), 128 + (r % 64)>>
  ELSE IF r <= 65535
    THEN <<224 + (r \div 4096), 128 + ((r \div 64) % 64), 128 + (r % 64)>>
  ELSE <<240 + (r \div 262144), 128 + ((r \div 4096) % 64),
         128 + ((r \div 64) % 64), 128 + (r % 64)>>

\* utf8.DecodeRune: the size a leading byte announces, 0 when it is invalid
LeadSize(b) ==
  IF b \in 194..223 THEN 2
  ELSE IF b \in 224..239 THEN 3
  ELSE IF b \in 240..244 THEN 4
  ELSE 0

\* utf8.DecodeRune: the second bytes a leading byte accepts
AcceptSecond(b) ==
  IF b = 224 THEN 160..191
  ELSE IF b = 237 THEN 128..159
  ELSE IF b = 240 THEN 144..191
  ELSE IF b = 244 THEN 128..143
  ELSE 128..191

\* utf8.DecodeRune(p)
DecodeRune(p) ==
  LET bad == [r |-> RuneError, size |-> 1]
      sz == LeadSize(p[1])
  IN  IF Len(p) < 1 THEN [r |-> RuneError, size |-> 0]
      ELSE IF p[1] < 128 THEN [r |-> p[1], size |-> 1]
      ELSE IF sz = 0 \/ Len(p) < sz THEN bad
      ELSE IF p[2] \notin AcceptSecond(p[1]) THEN bad
      ELSE IF sz = 2 THEN [r |-> (p[1] % 32) * 64 + (p[2] % 64), size |-> 2]
      ELSE IF p[3] \notin 128..191 THEN bad
      ELSE IF sz = 3
        THEN [r |-> (p[1] % 16) * 4096 + (p[2] % 64) * 64 + (p[3] % 64),
              size |-> 3]
      ELSE IF p[4] \notin 128..191 THEN bad
      ELSE [r |-> (p[1] % 8) * 262144 + (p[2] % 64) * 4096
                    + (p[3] % 64) * 64 + (p[4] % 64),
            size |-> 4]

\* The value of a digit of strconv.ParseUint; 255 for any other byte.
DigitVal(c) ==
  IF c \in 48..57 THEN c - 48
  ELSE IF c \in 97..122 THEN c - 97 + 10
  ELSE IF c \in 65..90 THEN c - 65 + 10
  ELSE 255

\* A uint32 as two 16-bit limbs.
U32(hi, lo) == [hi |-> hi, lo |-> lo]

\* strconv.ParseUint, bitSize 32: the digit loop. A byte that is no digit of
\* the base gives 0 (syntax error), a value above 2^32 - 1 gives 2^32 - 1
\* (range error); the callers drop the error.
RECURSIVE ParseDigits(_, _, _, _)
ParseDigits(s, k, base, n) ==
  IF k > Len(s) THEN n
  ELSE LET d == DigitVal(s[k])
           lo == (n.lo * base) + d
           hi == (n.hi * base) + (lo \div Limb)
       IN  IF d >= base THEN U32(0, 0)
           ELSE IF hi >= Limb THEN U32(Limb - 1, Limb - 1)
           ELSE ParseDigits(s, k + 1, base, U32(hi, lo % Limb))

\* strconv.ParseUint(s, base, 32) for base 0 and base 2..36: base 0 reads
\* the base from the prefix of s, and a leading "0" means octal.
ParseUint(s, base) ==
  IF s = <<>> THEN U32(0, 0)
  ELSE IF base # 0 THEN ParseDigits(s, 1, base, U32(0, 0))
  ELSE IF s[1] # 48 THEN ParseDigits(s, 1, 10, U32(0, 0))
  ELSE IF Len(s) >= 3 /\ s[2] \in {66, 98}
    THEN ParseDigits(s, 3, 2, U32(0, 0))
  ELSE IF Len(s) >= 3 /\ s[2] \in {79, 111}
    THEN ParseDigits(s, 3, 8, U32(0, 0))
  ELSE IF Len(s) >= 3 /\ s[2] \in {88, 120}
    THEN ParseDigits(s, 3, 16, U32(0, 0))
  ELSE ParseDigits(s, 2, 8, U32(0, 0))

\* rune(v) of a uint64 v < 2^32: the int32 with the same low 32 bits
RuneOf(v) ==
  IF v.hi >= Limb \div 2 THEN (v.hi - Limb) * Limb + v.lo
  ELSE v.hi * Limb + v.lo

\* ToValidRune(v)
ToValidRune(v) == IF v = 0 \/ ~ValidRune(v) THEN RuneError ELSE v

HexDigit(d) == IF d < 10 THEN 48 + d ELSE 65 + d - 10

\* url.QueryEscape: shouldEscape(c, encodeQueryComponent)
ShouldEscape(c) ==
  ~(IsAlphaNumeric(c) \/ c \in {45, 95, 46, 126})

\* url.QueryEscape(s)
RECURSIVE QueryEscape(_)
QueryEscape(s) ==
  IF s = <<>> THEN <<>>
  ELSE LET c == s[1]
           e == IF ~ShouldEscape(c) THEN <<c>>
                ELSE IF c = 32 THEN <<43>>
                ELSE <<37, HexDigit(c \div 16), HexDigit(c % 16)>>
       IN  e \o QueryEscape(Tail(s))

\* LookUpHTML5EntityByName(name): the characters of the entity, <<>> when
\* the name is unknown. A table of three names stands for the HTML5 table.
EntityNames ==
  { <<97, 109, 112>>, <<111, 117, 109, 108>>, <<108, 116>> }

LookUpHTML5EntityByName(name) ==
  IF name = <<97, 109, 112>> THEN <<38>>
  ELSE IF name = <<111, 117, 109, 108>> THEN <<195, 182>>
  ELSE IF name = <<108, 116>> THEN <<60>>
  ELSE <<>>

\* unicodeCaseFoldings[r]: the runes r folds to, <<>> when r has no entry.
\* Four entries stand for the Unicode table.
UnicodeCaseFoldings(r) ==
  IF r = 223 THEN <<115, 115>>
  ELSE IF r = 192 THEN <<224>>
  ELSE IF r = 181 THEN <<956>>
  ELSE IF r = 8490 THEN <<107>>
  ELSE <<>>

-----------------------------------------------------------------------------
(* The transformations, one outer loop iteration at a time, on a frame
   st = [mem, cob, v, i, n]: the memory, the function's buffer, its argument
   (a slice header) and its locals i and n *)

\* The bytes of the argument.
Src(st) == SliceBytes(st.mem, st.v)

\* cob.Write(value) in a frame
StWrite(st, value) ==
  LET r == CobWrite([mem |-> st.mem, cob |-> st.cob], value)
  IN  [st EXCEPT !.mem = r.mem, !.cob = r.cob]

\* cob.WriteByte(c) in a frame
StWriteByte(st, c) ==
  LET r == CobWriteByte([mem |-> st.mem, cob |-> st.cob], c)
  IN  [st EXCEPT !.mem = r.mem, !.cob = r.cob]

\* cob := NewCopyOnWriteBuffer(v); n := 0; i := 0
Enter(mem, v) ==
  [mem |-> mem, cob |-> NewCopyOnWriteBuffer(v), v |-> v, i |-> 0, n |-> 0]

FlushTailAlways(st) == StWrite(st, Sub(Src(st), st.n, st.v.len))

\* if cob.IsCopied() { cob.Write(v[n:]) }
FlushTail(st) ==
  IF CobIsCopied(st) THEN StWrite(st, Sub(Src(st), st.n, st.v.len)) ELSE st

\* ReadWhile(source, [2]int{lo, hi}, pred): where the run of bytes that
\* satisfy pred ends, and whether it holds any byte; pred is given as the
\* set of the bytes that satisfy it
ReadWhile(source, lo, hi, pred) ==
  LET stops == { j \in lo..(hi - 1) : source[j + 1] \notin pred }
      j == IF lo >= hi THEN lo
           ELSE IF stops = {} THEN hi
           ELSE CHOOSE k \in stops : \A m \in stops : k <= m
  IN  [j |-> j, ok |-> j > lo]

EscapeHTMLLoopDropsPending(st) ==
  LET c == Src(st)[st.i + 1]
      escaped == HtmlEscape(c)
  IN  IF escaped # <<>>
      THEN [StWrite(st, escaped) EXCEPT !.n = st.i + 1, !.i = st.i + 1]
      ELSE [st EXCEPT !.i = st.i + 1]

\* EscapeHTML: the loop body
EscapeHTMLLoop(st) ==
  LET v == Src(st)
      c == v[st.i + 1]
      escaped == HtmlEscape(c)
  IN  IF escaped # <<>>
      THEN [StWrite(StWrite(st, Sub(v, st.n, st.i)), escaped)
              EXCEPT !.n = st.i + 1, !.i = st.i + 1]
      ELSE [st EXCEPT !.i = st.i + 1]

UnescapePunctuationsLoopAnyByte(st) ==
  LET source == Src(st)
      i == st.i
  IN  IF i < Len(source) - 1 /\ source[i + 1] = 92
      THEN [StWriteByte(StWrite(st, Sub(source, st.n, i)), source[i + 2])
              EXCEPT !.i = i + 2, !.n = i + 2]
      ELSE [st EXCEPT !.i = i + 1]

\* UnescapePunctuations: the loop body
UnescapePunctuationsLoop(st) ==
  LET source == Src(st)
      limit == Len(source)
      i == st.i
      c == source[i + 1]
  IN  IF i < limit - 1 /\ c = 92 /\ IsPunct(source[i + 2])
      THEN [StWriteByte(StWrite(st, Sub(source, st.n, i)), source[i + 2])
              EXCEPT !.i = i + 2, !.n = i + 2]
      ELSE [st EXCEPT !.i = i + 1]

\* ResolveNumericReferences: the substitution of source[pos:j+1], whose
\* digits source[start:j] are read in the given base
Substitute(st, pos, start, j, base) ==
  LET source == Src(st)
      v == ParseUint(Sub(source, start, j), base)
      s1 == StWrite(st, Sub(source, st.n, pos))
      s2 == StWrite(s1, EncodeRune(ToValidRune(RuneOf(v))))
  IN  [s2 EXCEPT !.n = j + 1, !.i = j + 1]

ResumeFromStart(st, next) == [st EXCEPT !.i = 0]

ResumeSkipsByte(st, next) == [st EXCEPT !.i = next + 1]

\* i = next - 1, and the i++ of the loop
Resume(st, next) == [st EXCEPT !.i = (next - 1) + 1]

\* ResolveNumericReferences: the loop body
ResolveNumericReferencesLoop(st) ==
  LET source == Src(st)
      limit == Len(source)
      i == st.i
      next == i + 1
      nnext == next + 1
      nc == source[nnext + 1]
      resume == Resume(st, next)
      hex == ReadWhile(source, nnext + 1, limit,
                      { b \in Byte : IsHexDecimal(b) })
      dec == ReadWhile(source, nnext, limit,
                      { b \in Byte : IsNumeric(b) })
  IN  IF source[i + 1] # 38 THEN [st EXCEPT !.i = i + 1]
      ELSE IF ~(next < limit /\ source[next + 1] = 35) THEN resume
      ELSE IF ~(nnext < limit) THEN resume
      ELSE IF (nnext < limit /\ nc = 120) \/ nc = 88
        THEN IF hex.ok /\ hex.j < limit /\ source[hex.j + 1] = 59
             THEN Substitute(st, i, nnext + 1, hex.j, 16)
             ELSE resume
      ELSE IF nc >= 48 /\ nc <= 57
        THEN IF /\ dec.ok /\ dec.j < limit /\ dec.j - nnext < 8
                /\ source[dec.j + 1] = 59
             THEN Substitute(st, i, nnext, dec.j, 0)
             ELSE resume
      ELSE resume

\* ResolveEntityNames: the loop body
ResolveEntityNamesLoop(st) ==
  LET source == Src(st)
      limit == Len(source)
      i == st.i
      next == i + 1
      resume == [st EXCEPT !.i = (next - 1) + 1]
      run == ReadWhile(source, next, limit,
                      { b \in Byte : IsAlphaNumeric(b) })
      entity == LookUpHTML5EntityByName(Sub(source, next, run.j))
  IN  IF source[i + 1] # 38 THEN [st EXCEPT !.i = i + 1]
      ELSE IF next < limit /\ source[next + 1] = 35 THEN resume
      ELSE IF run.ok /\ run.j < limit /\ source[run.j + 1] = 59
                /\ entity # <<>>
        THEN [StWrite(StWrite(st, Sub(source, st.n, i)), entity)
                EXCEPT !.n = run.j + 1, !.i = run.j + 1]
      ELSE resume

\* DoFullUnicodeCaseFolding: for _, f := range folded { cob.Write(rbuf[:l]) }
RECURSIVE WriteFolded(_, _)
WriteFolded(st, folded) ==
  IF folded = <<>> THEN st
  ELSE WriteFolded(StWrite(st, EncodeRune(Head(folded))), Tail(folded))

\* DoFullUnicodeCaseFolding: the loop body
DoFullUnicodeCaseFoldingLoop(st) ==
  LET v == Src(st)
      i == st.i
      c == v[i + 1]
      skip == [st EXCEPT !.i = i + 1]
      d == DecodeRune(Sub(v, i, Len(v)))
      folded == UnicodeCaseFoldings(d.r)
  IN  IF c < 181
      THEN IF c >= 65 /\ c <= 90
           THEN [StWriteByte(StWrite(st, Sub(v, st.n, i)), c + 32)
                   EXCEPT !.n = i + 1, !.i = i + 1]
           ELSE skip
      ELSE IF ~RuneStart(c) THEN skip
      ELSE IF d.r = RuneError THEN skip
      ELSE IF folded = <<>> THEN skip
      ELSE [WriteFolded(StWrite(st, Sub(v, st.n, i)), folded)
              EXCEPT !.i = (i + (d.size - 1)) + 1, !.n = (i + (d.size - 1)) + 1]

\* spaces
Spaces == {32, 9, 10, 11, 12, 13}

TrimLeftKeepsAll(source, b) == 0

\* TrimLeft(source, b), source given as its bytes and b as the set of its
\* bytes: the number of bytes sliced off, i in source[i:]
TrimLeft(source, b) ==
  LET stops == { k \in 0..(Len(source) - 1) : source[k + 1] \notin b }
  IN  IF stops = {} THEN Len(source)
      ELSE CHOOSE k \in stops : \A m \in stops : k <= m

\* TrimRight(source, b): the length kept, i + 1 in source[:i+1]
TrimRight(source, b) ==
  LET stops == { k \in 0..(Len(source) - 1) : source[k + 1] \notin b }
  IN  IF stops = {} THEN 0
      ELSE (CHOOSE k \in stops : \A m \in stops : k >= m) + 1

\* source[i:j] of a slice header
Reslice(s, i, j) ==
  [arr |-> s.arr, off |-> s.off + i, len |-> j - i, cap |-> s.cap - i]

\* ReplaceSpaces: the loop from index i on, with the locals ret (nil or
\* its bytes b) and start, and what follows the loop; yields ret
RECURSIVE ReplaceSpacesFrom(_, _, _, _, _)
ReplaceSpacesFrom(source, repl, i, ret, start) ==
  LET c == source[i + 1]
      iss == IsSpace(c)
      made == IF ret.nil THEN [nil |-> FALSE, b |-> Sub(source, 0, start)]
              ELSE ret
      closed == [made EXCEPT !.b = Append(Append(made.b, repl), c)]
  IN  IF i >= Len(source)
      THEN IF start >= 0 /\ ~ret.nil
           THEN [ret EXCEPT !.b = Append(ret.b, repl)]
           ELSE ret
      ELSE IF start < 0 /\ iss
        THEN ReplaceSpacesFrom(source, repl, i + 1, ret, i)
      ELSE IF start >= 0 /\ iss
        THEN ReplaceSpacesFrom(source, repl, i + 1, ret, start)
      ELSE IF start >= 0
        THEN ReplaceSpacesFrom(source, repl, i + 1, closed, -1)
      ELSE IF ~ret.nil
        THEN ReplaceSpacesFrom(source, repl, i + 1,
                               [ret EXCEPT !.b = Append(ret.b, c)], start)
      ELSE ReplaceSpacesFrom(source, repl, i + 1, ret, start)

\* ReplaceSpaces(source, repl): ret, nil when source itself is returned
ReplaceSpaces(source, repl) ==
  ReplaceSpacesFrom(source, repl, 0, [nil |-> TRUE, b |-> <<>>], -1)

\* URLEscape: the loop body
URLEscapeLoop(st) ==
  LET v == Src(st)
      limit == Len(v)
      i == st.i
      c == v[i + 1]
      len0 == Utf8Len(c)
      u8len == IF len0 > Len(v) THEN Len(v) - 1 ELSE len0
      stop == i + u8len
      s1 == StWrite(st, Sub(v, st.n, i))
  IN  IF UrlSafe(c) THEN [st EXCEPT !.i = i + 1]
      ELSE IF /\ c = 37 /\ i + 2 < limit
              /\ IsHexDecimal(v[i + 2]) /\ IsHexDecimal(v[i + 2])
        THEN [st EXCEPT !.i = i + 3]
      ELSE IF len0 = 99 THEN [st EXCEPT !.i = i + 1]
      ELSE IF c = 32
        THEN [StWrite(s1, HtmlSpace) EXCEPT !.i = i + 1, !.n = i + 1]
      ELSE IF u8len = 0 THEN [st EXCEPT !.i = i + 1, !.n = i + 1]
      ELSE IF stop > Len(v) THEN [s1 EXCEPT !.i = i + 1, !.n = i + 1]
      ELSE [StWrite(s1, QueryEscape(Sub(v, i, stop)))
              EXCEPT !.i = i + u8len, !.n = i + u8len]

\* URLEscape: if cob.IsCopied() && n < limit { cob.Write(v[n:]) }
URLEscapeTail(st) ==
  IF CobIsCopied(st) /\ st.n < st.v.len
  THEN StWrite(st, Sub(Src(st), st.n, st.v.len))
  ELSE st

-----------------------------------------------------------------------------
(* A call of one transformation on an input, run one loop iteration at a
   time; URLEscape with resolveReference runs four scans in a row *)

MaxToks == 3

\* All concatenations of up to k of the given pieces.
RECURSIVE Concats(_, _)
Concats(toks, k) ==
  IF k = 0 THEN { <<>> }
  ELSE LET s == Concats(toks, k - 1)
       IN  s \cup { a \o t : a \in s, t \in toks }

Calls(fn, rr, toks) ==
  { [fn |-> fn, rr |-> rr, bytes |-> b] : b \in Concats(toks, MaxToks) }

\* The digit runs of the numeric references the model resolves:
\* 0  00  8  08  010  10  A  2603  9731  D800  DFFF  55296
\* 055300  110000  10FFFF  1114111  1114112  9999999  99999999  FFFFFFFF  80000041  100000041  FFFFFFFFFFFFFFFFF
DigitRuns ==
  { <<48>>, <<48, 48>>, <<56>>, <<48, 56>>, <<48, 49, 48>>, <<49, 48>>,
    <<65>>, <<50, 54, 48, 51>>, <<57, 55, 51, 49>>, <<68, 56, 48, 48>>,
    <<68, 70, 70, 70>>, <<53, 53, 50, 57, 54>>, <<48, 53, 53, 51, 48, 48>>,
    <<49, 49, 48, 48, 48, 48>>, <<49, 48, 70, 70, 70, 70>>,
    <<49, 49, 49, 52, 49, 49, 49>>, <<49, 49, 49, 52, 49, 49, 50>>,
    <<57, 57, 57, 57, 57, 57, 57>>, <<57, 57, 57, 57, 57, 57, 57, 57>>,
    <<70, 70, 70, 70, 70, 70, 70, 70>>, <<56, 48, 48, 48, 48, 48, 52, 49>>,
    <<49, 48, 48, 48, 48, 48, 48, 52, 49>>,
    <<70, 70, 70, 70, 70, 70, 70, 70, 70, 70, 70, 70, 70, 70, 70, 70, 70>> }

\* ResolveNumericReferences on one candidate reference: '&#', '&#x' or
\* '&#X', a digit run, and ';' or not, between other bytes or not.
NumRefCalls ==
  { [fn |-> "ResolveNumericReferences", rr |-> FALSE,
     bytes |-> pre \o intro \o d \o post] :
      pre \in { <<>>, <<97>> },
      intro \in { <<38, 35>>, <<38, 35, 120>>, <<38, 35, 88>> },
      d \in DigitRuns,
      post \in { <<59>>, <<59, 97>>, <<>> } }

\* ResolveNumericReferences on a candidate that fails, with a complete
\* reference right after it or not, between other bytes or not: the failed
\* candidates are
\* &  &#  &#x  &#;  &#x;  &#1  &#x1  &#12345678  &#99999999;  &#a;  &#xg;
\* and the complete references  &#65;  &#x41;  &#10;
RecoveryCalls ==
  { [fn |-> "ResolveNumericReferences", rr |-> FALSE,
     bytes |-> pre \o failed \o ref \o post] :
      pre \in { <<>>, <<97>> },
      failed \in { <<38>>, <<38, 35>>, <<38, 35, 120>>, <<38, 35, 59>>,
                   <<38, 35, 120, 59>>, <<38, 35, 49>>, <<38, 35, 120, 49>>,
                   <<38, 35, 49, 50, 51, 52, 53, 54, 55, 56>>,
                   <<38, 35, 57, 57, 57, 57, 57, 57, 57, 57, 59>>,
                   <<38, 35, 97, 59>>, <<38, 35, 120, 103, 59>> },
      ref \in { <<>>, <<38, 35, 54, 53, 59>>, <<38, 35, 120, 52, 49, 59>>,
                <<38, 35, 49, 48, 59>> },
      post \in { <<>>, <<97>>, <<59>> } }

\* The calls the model makes: each function on the concatenations of pieces
\* chosen for it.
TransformCalls ==
  \* a " & < >
  Calls("EscapeHTML", FALSE,
        { <<97>>, <<34>>, <<38>>, <<60>>, <<62>> })
  \* \ ! a * \!
  \cup Calls("UnescapePunctuations", FALSE,
             { <<92>>, <<33>>, <<97>>, <<42>>, <<92, 33>> })
  \* &#  &#x  &#X  ;  0  10  A  08  010  2603  9731  a
  \cup Calls("ResolveNumericReferences", FALSE,
             { <<38, 35>>, <<38, 35, 120>>, <<38, 35, 88>>, <<59>>, <<48>>,
               <<49, 48>>, <<65>>, <<48, 56>>, <<48, 49, 48>>,
               <<50, 54, 48, 51>>, <<57, 55, 51, 49>>, <<97>> })
  \* &  amp  ouml  zz  ;  #  a
  \cup Calls("ResolveEntityNames", FALSE,
             { <<38>>, <<97, 109, 112>>, <<111, 117, 109, 108>>,
               <<122, 122>>, <<59>>, <<35>>, <<97>> })
  \* a  A  Z  U+00DF  U+00C0  U+212A  U+00E9  0xC3  0x9F
  \cup Calls("DoFullUnicodeCaseFolding", FALSE,
             { <<97>>, <<65>>, <<90>>, <<195, 159>>, <<195, 128>>,
               <<226, 132, 170>>, <<195, 169>>, <<195>>, <<159>> })
  \* a  space  %  2  F  g  <  0xC3  0xA9  0xE2  0xFF
  \cup Calls("URLEscape", FALSE,
             { <<97>>, <<32>>, <<37>>, <<50>>, <<70>>, <<103>>, <<60>>,
               <<195>>, <<169>>, <<226>>, <<255>> })
  \* \!  \  &#10;  &#  &amp;  &  space  a  %  2F
  \cup Calls("URLEscape", TRUE,
             { <<92, 33>>, <<92>>, <<38, 35, 49, 48, 59>>, <<38, 35>>,
               <<38, 97, 109, 112, 59>>, <<38>>, <<32>>, <<97>>, <<37>>,
               <<50, 70>> })
  \* a  A  b  space  tab  0x0B  0xC3
  \cup Calls("ToLinkReference", FALSE,
             { <<97>>, <<65>>, <<98>>, <<32>>, <<9>>, <<11>>, <<195>> })
  \* a  space  tab  0x0B
  \cup Calls("ReplaceSpaces", FALSE, { <<97>>, <<32>>, <<9>>, <<11>> })
  \cup NumRefCalls
  \cup RecoveryCalls

\* The scans a call runs, in order.
Stages(fn, rr) ==
  IF fn = "URLEscape" /\ rr
  THEN <<"UnescapePunctuations", "ResolveNumericReferences",
         "ResolveEntityNames", "URLEscape">>
  ELSE IF fn = "ToLinkReference"
  THEN <<"TrimLeftSpace", "TrimRightSpace", "DoFullUnicodeCaseFolding",
         "ReplaceSpaces">>
  ELSE <<fn>>

NoSlice == [arr |-> 0, off |-> 0, len |-> 0, cap |-> 0]

InitTransform ==
  /\ NoFilter
  /\ log = <<>>
  /\ \E call \in TransformCalls :
       LET in == [arr |-> 1, off |-> 0, len |-> Len(call.bytes),
                  cap |-> Len(call.bytes)]
           st == Enter(<< call.bytes >>, in)
       IN  /\ bmem = st.mem
           /\ cob = st.cob
           /\ scan = [arr |-> call.bytes, len |-> Len(call.bytes),
                      fn |-> call.fn, rr |-> call.rr,
                      stage |-> Head(Stages(call.fn, call.rr)),
                      rest |-> Tail(Stages(call.fn, call.rr)),
                      v |-> in, i |-> 0, n |-> 0,
                      pc |-> "loop", ret |-> NoSlice]

Frame == [mem |-> bmem, cob |-> cob, v |-> scan.v, i |-> scan.i, n |-> scan.n]

\* for i := 0; i < len(v); ...: the loop of f is in its body
Looping(f) == scan.pc = "loop" /\ scan.stage = f /\ scan.i < scan.v.len

\* the loop of f is over
Ending(f) == scan.pc = "loop" /\ scan.stage = f /\ scan.i >= scan.v.len

\* One iteration took the frame to st.
Advance(st) ==
  /\ bmem' = st.mem
  /\ cob' = st.cob
  /\ scan' = [scan EXCEPT !.i = st.i, !.n = st.n]
  /\ UNCHANGED log
  /\ UNCHANGED notScan

\* return cob.Bytes(), to the caller or into the next scan of URLEscape
ReturnSlice(mem, c, ret, n) ==
  LET next == Enter(mem, ret)
  IN  /\ IF scan.rest = <<>>
         THEN /\ bmem' = mem
              /\ cob' = c
              /\ scan' = [scan EXCEPT !.pc = "done", !.ret = ret, !.n = n]
         ELSE /\ bmem' = next.mem
              /\ cob' = next.cob
              /\ scan' = [scan EXCEPT !.stage = Head(scan.rest),
                                      !.rest = Tail(scan.rest),
                                      !.v = ret, !.i = 0, !.n = 0]
      /\ UNCHANGED log
      /\ UNCHANGED notScan

\* return cob.Bytes()
Return(st) == ReturnSlice(st.mem, st.cob, CobBytes(st), st.n)

EscapeHTMLStep == Looping("EscapeHTML") /\ Advance(EscapeHTMLLoop(Frame))

EscapeHTMLReturn == Ending("EscapeHTML") /\ Return(FlushTail(Frame))

UnescapePunctuationsStep ==
  Looping("UnescapePunctuations") /\ Advance(UnescapePunctuationsLoop(Frame))

UnescapePunctuationsReturn ==
  Ending("UnescapePunctuations") /\ Return(FlushTail(Frame))

ResolveNumericReferencesStep ==
  /\ Looping("ResolveNumericReferences")
  /\ Advance(ResolveNumericReferencesLoop(Frame))

ResolveNumericReferencesReturn ==
  Ending("ResolveNumericReferences") /\ Return(FlushTail(Frame))

ResolveEntityNamesStep ==
  Looping("ResolveEntityNames") /\ Advance(ResolveEntityNamesLoop(Frame))

ResolveEntityNamesReturn ==
  Ending("ResolveEntityNames") /\ Return(FlushTail(Frame))

DoFullUnicodeCaseFoldingStep ==
  /\ Looping("DoFullUnicodeCaseFolding")
  /\ Advance(DoFullUnicodeCaseFoldingLoop(Frame))

DoFullUnicodeCaseFoldingReturn ==
  Ending("DoFullUnicodeCaseFolding") /\ Return(FlushTail(Frame))

URLEscapeStep == Looping("URLEscape") /\ Advance(URLEscapeLoop(Frame))

URLEscapeReturn == Ending("URLEscape") /\ Return(URLEscapeTail(Frame))

\* return TrimLeft(source, spaces)
TrimLeftSpace ==
  /\ scan.pc = "loop" /\ scan.stage = "TrimLeftSpace"
  /\ ReturnSlice(bmem, cob,
                 Reslice(scan.v, TrimLeft(Src(Frame), Spaces), scan.v.len), 0)

\* return TrimRight(source, spaces)
TrimRightSpace ==
  /\ scan.pc = "loop" /\ scan.stage = "TrimRightSpace"
  /\ ReturnSlice(bmem, cob,
                 Reslice(scan.v, 0, TrimRight(Src(Frame), Spaces)), 0)

\* The repl of the call: ' ' from ToLinkReference, '-' in a call of
\* ReplaceSpaces itself.
Repl == IF scan.fn = "ToLinkReference" THEN 32 ELSE 45

\* ReplaceSpaces(source, repl), the whole call: source itself comes back
\* when ret is nil, else the array made with the capacity len(source) and
\* appended to
ReplaceSpacesCall ==
  /\ scan.pc = "loop" /\ scan.stage = "ReplaceSpaces"
  /\ LET source == Src(Frame)
         ret == ReplaceSpaces(source, Repl)
         made == MakeBytes(bmem, 0, Len(source))
         filled == AppendBytes(made.mem, made.slice, ret.b)
     IN  IF ret.nil
         THEN ReturnSlice(bmem, cob, scan.v, 0)
         ELSE ReturnSlice(filled.mem, cob, filled.slice, 0)

NextTransform ==
  \/ EscapeHTMLStep
  \/ EscapeHTMLReturn
  \/ UnescapePunctuationsStep
  \/ UnescapePunctuationsReturn
  \/ ResolveNumericReferencesStep
  \/ ResolveNumericReferencesReturn
  \/ ResolveEntityNamesStep
  \/ ResolveEntityNamesReturn
  \/ DoFullUnicodeCaseFoldingStep
  \/ DoFullUnicodeCaseFoldingReturn
  \/ URLEscapeStep
  \/ URLEscapeReturn
  \/ TrimLeftSpace
  \/ TrimRightSpace
  \/ ReplaceSpacesCall

SpecTransform == InitTransform /\ [][NextTransform]_vars

\* The call has returned.
Done == scan.pc = "done"

\* The bytes the call returned.
Result == SliceBytes(bmem, scan.ret)

-----------------------------------------------------------------------------
(* What each transformation substitutes, read off the input bytes alone *)

\* b[p..e] is '&#' digits ';' with 1 to 7 decimal digits
DecRefAt(b, p, e) ==
  /\ p + 3 <= e /\ e <= Len(b) /\ e - (p + 2) <= 7
  /\ b[p] = 38 /\ b[p + 1] = 35 /\ b[e] = 59
  /\ \A k \in (p + 2)..(e - 1) : b[k] \in 48..57

\* b[p..e] is '&#x' or '&#X', one or more hexadecimal digits, ';'
HexRefAt(b, p, e) ==
  /\ p + 4 <= e /\ e <= Len(b)
  /\ b[p] = 38 /\ b[p + 1] = 35 /\ b[p + 2] \in {120, 88} /\ b[e] = 59
  /\ \A k \in (p + 3)..(e - 1) :
       b[k] \in (48..57) \cup (97..102) \cup (65..70)

\* b[p..e] is '&' name ';' for a name of the entity table
EntityAt(b, p, e) ==
  /\ p + 2 <= e /\ e <= Len(b)
  /\ b[p] = 38 /\ b[e] = 59
  /\ SubSeq(b, p + 1, e - 1) \in EntityNames

\* The runes of the folding table.
FoldingKeys == { 223, 192, 181, 8490 }

\* The UTF-8 encoding of a rune of the folding table starts at b[k].
FoldableAt(b, k) ==
  \E r \in FoldingKeys :
    /\ k + Len(EncodeRune(r)) - 1 <= Len(b)
    /\ SubSeq(b, k, k + Len(EncodeRune(r)) - 1) = EncodeRune(r)

\* b[k..k+2] is '%' and two hexadecimal digits
PercentEscapeAt(b, k) ==
  /\ k + 2 <= Len(b) /\ b[k] = 37
  /\ \A j \in {k + 1, k + 2} : b[j] \in (48..57) \cup (97..102) \cup (65..70)

Positions(b) == 1..Len(b)

HtmlTrigger(b) == \E k \in Positions(b) : b[k] \in {34, 38, 60, 62}

PunctTrigger(b) ==
  \E k \in Positions(b) : k < Len(b) /\ b[k] = 92 /\ IsPunct(b[k + 1])

NumTrigger(b) ==
  \E p \in Positions(b), e \in Positions(b) : DecRefAt(b, p, e) \/ HexRefAt(b, p, e)

EntTrigger(b) == \E p \in Positions(b), e \in Positions(b) : EntityAt(b, p, e)

FoldTrigger(b) == \E k \in Positions(b) : b[k] \in 65..90 \/ FoldableAt(b, k)

\* A byte URLEscape has to escape: not URL-safe, not marked as an invalid
\* leading byte, and not the '%' of a percent-escape.
UrlTrigger(b) ==
  \E k \in Positions(b) :
    ~UrlSafe(b[k]) /\ Utf8Len(b[k]) # 99 /\ ~PercentEscapeAt(b, k)

\* The input of the call holds something the called function substitutes.
Triggering ==
  LET b == scan.arr
  IN  IF scan.fn = "EscapeHTML" THEN HtmlTrigger(b)
      ELSE IF scan.fn = "UnescapePunctuations" THEN PunctTrigger(b)
      ELSE IF scan.fn = "ResolveNumericReferences" THEN NumTrigger(b)
      ELSE IF scan.fn = "ResolveEntityNames" THEN EntTrigger(b)
      ELSE IF scan.fn = "DoFullUnicodeCaseFolding" THEN FoldTrigger(b)
      ELSE IF scan.fn = "URLEscape"
        THEN \/ UrlTrigger(b)
             \/ scan.rr /\ (PunctTrigger(b) \/ NumTrigger(b) \/ EntTrigger(b))
      ELSE TRUE

\* C9: when the input of EscapeHTML, UnescapePunctuations,
\* ResolveNumericReferences, ResolveEntityNames, DoFullUnicodeCaseFolding or
\* URLEscape holds none of the function's triggering bytes or sequences, the
\* copy-on-write buffer is never materialized and the function returns the
\* input slice itself, with its length and content, the input unmodified.
C9_NoOpFastPath ==
  ~Triggering =>
    /\ ~CobIsCopied(BufStore)
    /\ bmem[1] = scan.arr
    /\ Done => (scan.ret = InputSlice /\ Result = scan.arr)

\* C9 witness: URLEscape with resolveReference has returned on an input that
\* holds '&', '%' and a backslash-free, reference-free text, nothing of which
\* is substituted.
C9_Witness ==
  /\ Done
  /\ scan.fn = "URLEscape" /\ scan.rr
  /\ ~Triggering
  /\ \E k \in Positions(scan.arr) : scan.arr[k] = 38
  /\ \E k \in Positions(scan.arr) : scan.arr[k] = 37

\* The number a run of digits denotes in the given base (10 or 16), 1114112
\* standing for every larger number.
RECURSIVE Denotes(_, _, _)
Denotes(digits, base, acc) ==
  IF digits = <<>> THEN acc
  ELSE LET c == Head(digits)
           d == IF c \in 48..57 THEN c - 48
                ELSE IF c \in 97..102 THEN c - 87
                ELSE c - 55
           n == (acc * base) + d
       IN  Denotes(Tail(digits), base, IF n > 1114111 THEN 1114112 ELSE n)

\* The UTF-8 encoding of code point n, of U+FFFD when n is 0 or no scalar
\* value.
Utf8Of(n) ==
  IF n = 0 \/ n > 1114111 \/ n \in 55296..57343 THEN <<239, 191, 189>>
  ELSE EncodeRune(n)

\* The only '&' of b is b[p].
OnlyAmpAt(b, p) == \A k \in Positions(b) : b[k] = 38 <=> k = p

\* C10: ResolveNumericReferences replaces '&#' D ';' (D of 1 to 7 decimal
\* digits) by the code point D denotes in base 10 and '&#x' H ';' or
\* '&#X' H ';' by the code point H denotes in base 16; stated for an input
\* whose only '&' starts the reference.
C10_DigitsDenoteCodePoint ==
  (Done /\ scan.fn = "ResolveNumericReferences") =>
    LET b == scan.arr
    IN  \A p \in Positions(b), e \in Positions(b) :
          /\ (OnlyAmpAt(b, p) /\ DecRefAt(b, p, e)) =>
               Result = SubSeq(b, 1, p - 1)
                          \o Utf8Of(Denotes(SubSeq(b, p + 2, e - 1), 10, 0))
                          \o SubSeq(b, e + 1, Len(b))
          /\ (OnlyAmpAt(b, p) /\ HexRefAt(b, p, e)) =>
               Result = SubSeq(b, 1, p - 1)
                          \o Utf8Of(Denotes(SubSeq(b, p + 3, e - 1), 16, 0))
                          \o SubSeq(b, e + 1, Len(b))

-----------------------------------------------------------------------------
(* Numeric references that denote no character *)

\* n is 0, a surrogate or above U+10FFFF (1114112 stands for every larger
\* number, those that do not fit in 32 bits included).
NoScalar(n) == n = 0 \/ n \in 55296..57343 \/ n > 1114111

\* C11: a complete numeric reference whose number is 0, a surrogate, above
\* 0x10FFFF or too large for 32 bits is replaced by exactly the encoding of
\* U+FFFD, never by another character; stated for an input whose only '&'
\* starts the reference, the number being the one the digits denote (base
\* 10, or base 16 after 'x' or 'X').
C11_InvalidGivesReplacement ==
  (Done /\ scan.fn = "ResolveNumericReferences") =>
    LET b == scan.arr
    IN  \A p \in Positions(b), e \in Positions(b) :
          /\ ( /\ OnlyAmpAt(b, p) /\ DecRefAt(b, p, e)
               /\ NoScalar(Denotes(SubSeq(b, p + 2, e - 1), 10, 0)) ) =>
               Result = SubSeq(b, 1, p - 1) \o <<239, 191, 189>>
                          \o SubSeq(b, e + 1, Len(b))
          /\ ( /\ OnlyAmpAt(b, p) /\ HexRefAt(b, p, e)
               /\ NoScalar(Denotes(SubSeq(b, p + 3, e - 1), 16, 0)) ) =>
               Result = SubSeq(b, 1, p - 1) \o <<239, 191, 189>>
                          \o SubSeq(b, e + 1, Len(b))

-----------------------------------------------------------------------------
(* URLEscape and '%' *)

\* b holds only URL-safe bytes and '%'.
SafeOrPercent(b) == \A k \in Positions(b) : UrlSafe(b[k]) \/ b[k] = 37

\* b[k..] with every '%' that starts no percent-escape replaced by '%25'.
RECURSIVE PercentImage(_, _)
PercentImage(b, k) ==
  IF k > Len(b) THEN <<>>
  ELSE IF PercentEscapeAt(b, k)
    THEN SubSeq(b, k, k + 2) \o PercentImage(b, k + 3)
  ELSE IF b[k] = 37 THEN <<37, 50, 53>> \o PercentImage(b, k + 1)
  ELSE <<b[k]>> \o PercentImage(b, k + 1)

\* C12: URLEscape keeps a '%' only when two hexadecimal digits follow it,
\* and then keeps the three bytes; every other '%' becomes '%25'. Stated
\* for inputs of URL-safe bytes and '%', without resolveReference.
C12_PercentKeptOnlyIfEscape ==
  (Done /\ scan.fn = "URLEscape" /\ ~scan.rr /\ SafeOrPercent(scan.arr)) =>
    Result = PercentImage(scan.arr, 1)

-----------------------------------------------------------------------------
(* URLEscape: what becomes of each input byte *)

\* The percent-escape of byte c.
PercentOf(c) == <<37, HexDigit(c \div 16), HexDigit(c % 16)>>

\* out[j..] is b[k..] with each byte either verbatim or as its
\* percent-escape.
RECURSIVE Represents(_, _, _, _)
Represents(out, j, b, k) ==
  IF k > Len(b) THEN j = Len(out) + 1
  ELSE \/ /\ j <= Len(out) /\ out[j] = b[k]
          /\ Represents(out, j + 1, b, k + 1)
       \/ /\ j + 2 <= Len(out) /\ SubSeq(out, j, j + 2) = PercentOf(b[k])
          /\ Represents(out, j + 3, b, k + 1)

\* C13: URLEscape deletes no input byte: the output is the input with each
\* byte verbatim or percent-escaped, in order, also when a multi-byte
\* leading byte announces more bytes than the input has left. Stated for
\* inputs without a space byte, without resolveReference.
C13_NoByteDeleted ==
  ( /\ Done /\ scan.fn = "URLEscape" /\ ~scan.rr
    /\ \A k \in Positions(scan.arr) : scan.arr[k] # 32 ) =>
    Represents(Result, 1, scan.arr, 1)

-----------------------------------------------------------------------------
(* URLEscape: the image of each class of bytes *)

\* b[k] announces a character of 2 to 4 bytes.
LeadAt(b, k) == Utf8Len(b[k]) \in {2, 3, 4}

\* b[k] lies among the bytes a leading byte before it announces.
AfterLead(b, k) ==
  \E l \in Positions(b) : l < k /\ LeadAt(b, l) /\ k <= l + Utf8Len(b[l]) - 1

\* out[j..] is b[k..] with every URL-safe byte verbatim, every space as
\* '%20', every byte marked invalid verbatim (or percent-escaped when it
\* continues a character) and every other byte percent-escaped.
RECURSIVE MapsByClass(_, _, _, _)
MapsByClass(out, j, b, k) ==
  LET c == b[k]
      verbatim == /\ j <= Len(out) /\ out[j] = c
                  /\ MapsByClass(out, j + 1, b, k + 1)
      as(img) == /\ j + 2 <= Len(out) /\ SubSeq(out, j, j + 2) = img
                 /\ MapsByClass(out, j + 3, b, k + 1)
  IN  IF k > Len(b) THEN j = Len(out) + 1
      ELSE IF UrlSafe(c) THEN verbatim
      ELSE IF c = 32 THEN as(HtmlSpace)
      ELSE IF Utf8Len(c) = 99
        THEN verbatim \/ (AfterLead(b, k) /\ as(PercentOf(c)))
      ELSE as(PercentOf(c))

\* C14: URLEscape(v, false) copies every URL-safe byte, turns every space
\* into '%20' and copies every byte marked as an invalid leading byte, also
\* right after a multi-byte leading byte. Stated for inputs without '%' in
\* which every leading byte has the bytes it announces.
C14_BytesMapByClass ==
  ( /\ Done /\ scan.fn = "URLEscape" /\ ~scan.rr
    /\ \A k \in Positions(scan.arr) :
         /\ scan.arr[k] # 37
         /\ LeadAt(scan.arr, k) => k + Utf8Len(scan.arr[k]) - 1 <= scan.len ) =>
    MapsByClass(Result, 1, scan.arr, 1)

-----------------------------------------------------------------------------
(* EscapeHTML *)

\* The image of a byte: '"' -> &quot;  '&' -> &amp;  '<' -> &lt;  '>' -> &gt;
HtmlImage(c) ==
  CASE c = 34 -> <<38, 113, 117, 111, 116, 59>>
    [] c = 38 -> <<38, 97, 109, 112, 59>>
    [] c = 60 -> <<38, 108, 116, 59>>
    [] c = 62 -> <<38, 103, 116, 59>>
    [] OTHER -> <<c>>

RECURSIVE HtmlImages(_)
HtmlImages(b) ==
  IF b = <<>> THEN <<>> ELSE HtmlImage(Head(b)) \o HtmlImages(Tail(b))

\* How many bytes of b equal c.
Count(b, c) == Cardinality({ k \in Positions(b) : b[k] = c })

\* C15: EscapeHTML(v) is the concatenation of the images of the bytes of v;
\* it holds no raw '"', '<' or '>' and has length
\* len(v) + 5*count('"') + 4*count('&') + 3*count('<') + 3*count('>').
C15_EscapeHTMLIsImage ==
  (Done /\ scan.fn = "EscapeHTML") =>
    /\ Result = HtmlImages(scan.arr)
    /\ \A k \in Positions(Result) : Result[k] \notin {34, 60, 62}
    /\ Len(Result) = scan.len + 5 * Count(scan.arr, 34) + 4 * Count(scan.arr, 38)
                       + 3 * Count(scan.arr, 60) + 3 * Count(scan.arr, 62)

\* C15 witness: EscapeHTML has returned on an input that holds an ordinary
\* byte followed by two bytes to escape.
C15_Witness ==
  /\ Done /\ scan.fn = "EscapeHTML"
  /\ scan.len = 3
  /\ scan.arr[1] = 97 /\ scan.arr[2] = 60 /\ scan.arr[3] = 38
  /\ Len(Result) = 10

-----------------------------------------------------------------------------
(* UnescapePunctuations *)

\* b[k..] read left to right: a backslash and the punctuation byte after it
\* give that byte, every other byte gives itself.
RECURSIVE Unescaped(_, _)
Unescaped(b, k) ==
  IF k > Len(b) THEN <<>>
  ELSE IF b[k] = 92 /\ k < Len(b) /\ IsPunct(b[k + 1])
    THEN <<b[k + 1]>> \o Unescaped(b, k + 2)
  ELSE <<b[k]>> \o Unescaped(b, k + 1)

\* x with a backslash put before every punctuation byte
RECURSIVE Escaped(_)
Escaped(x) ==
  IF x = <<>> THEN <<>>
  ELSE (IF IsPunct(Head(x)) THEN <<92, Head(x)>> ELSE <<Head(x)>>)
         \o Escaped(Tail(x))

\* The sequences of at most n bytes of b.
SeqsOver(b, n) == Concats({ <<b[k]>> : k \in Positions(b) }, n)

\* C16: UnescapePunctuations replaces, left to right and without overlap,
\* each backslash followed by a punctuation byte by that byte and copies
\* every other byte; so it returns x when given x with a backslash put
\* before every punctuation byte.
C16_UnescapeInvertsEscape ==
  (Done /\ scan.fn = "UnescapePunctuations") =>
    /\ Result = Unescaped(scan.arr, 1)
    /\ \A x \in SeqsOver(scan.arr, scan.len) :
         Escaped(x) = scan.arr => Result = x

\* C16 witness: UnescapePunctuations has returned on an escaped backslash
\* followed by an escaped '!', which is '\' and '!' with a backslash put
\* before each.
C16_Witness ==
  /\ Done /\ scan.fn = "UnescapePunctuations"
  /\ scan.arr = <<92, 92, 92, 33>>
  /\ scan.arr = Escaped(<<92, 33>>)
  /\ Result = <<92, 33>>

-----------------------------------------------------------------------------
(* ToLinkReference as a key of labels *)

\* DoFullUnicodeCaseFolding: the loop from the frame st on, and the return
RECURSIVE FoldFrom(_)
FoldFrom(st) ==
  IF st.i >= st.v.len THEN FlushTail(st)
  ELSE FoldFrom(DoFullUnicodeCaseFoldingLoop(st))

\* DoFullUnicodeCaseFolding(v), on the bytes of v
DoFullUnicodeCaseFolding(v) ==
  LET in == [arr |-> 1, off |-> 0, len |-> Len(v), cap |-> Len(v)]
      st == FoldFrom(Enter(<< v >>, in))
  IN  SliceBytes(st.mem, CobBytes(st))

\* ToLinkReference(v), on the bytes of v
ToLinkReference(v) ==
  LET l == Sub(v, TrimLeft(v, Spaces), Len(v))
      r == Sub(l, 0, TrimRight(l, Spaces))
      f == DoFullUnicodeCaseFolding(r)
      ret == ReplaceSpaces(f, 32)
  IN  IF ret.nil THEN f ELSE ret.b

\* The whitespace bytes, per IsSpace.
Whitespace == { c \in Byte : IsSpace(c) }

\* The labels one step away from b: a whitespace byte more or less at either
\* end or in a whitespace run, a whitespace byte of another kind, or a letter
\* in the other case.
Variants(b) ==
  LET n == Len(b)
      ws(k) == k >= 1 /\ k <= n /\ IsSpace(b[k])
  IN  { Sub(b, 0, k) \o << c >> \o Sub(b, k, n) :
          k \in { j \in 0..n : j = 0 \/ j = n \/ ws(j) \/ ws(j + 1) },
          c \in Whitespace }
      \cup { Sub(b, 0, k - 1) \o Sub(b, k, n) :
               k \in { j \in 1..n :
                         ws(j) /\ (j = 1 \/ j = n \/ ws(j - 1) \/ ws(j + 1)) } }
      \cup { [b EXCEPT ![k] = c] :
               k \in { j \in 1..n : ws(j) }, c \in Whitespace }
      \cup { [b EXCEPT ![k] = b[k] + 32] :
               k \in { j \in 1..n : b[j] \in 65..90 } }
      \cup { [b EXCEPT ![k] = b[k] - 32] :
               k \in { j \in 1..n : b[j] \in 97..122 } }

\* r has no whitespace at either end, no whitespace but ' ', no two adjacent
\* spaces and no letter 'A'..'Z'.
Canonical(r) ==
  /\ r # <<>> => ~IsSpace(r[1]) /\ ~IsSpace(r[Len(r)])
  /\ \A k \in Positions(r) : IsSpace(r[k]) => r[k] = 32
  /\ \A k \in 1..(Len(r) - 1) : ~(r[k] = 32 /\ r[k + 1] = 32)
  /\ \A k \in Positions(r) : r[k] \notin 65..90

\* C17: ToLinkReference is a canonical key of ASCII labels: a label and every
\* label that differs from it in leading or trailing whitespace, in the
\* length or the kind of bytes of an interior whitespace run, or in the case
\* of a letter have the same result, and the result has no leading or
\* trailing whitespace byte, no whitespace byte other than ' ', no two
\* adjacent spaces and no byte in 'A'..'Z'.
C17_LinkReferenceIsCanonicalKey ==
  (/\ Done /\ scan.fn = "ToLinkReference"
   /\ \A k \in Positions(scan.arr) : scan.arr[k] < 128) =>
    /\ Result = ToLinkReference(scan.arr)
    /\ \A b \in Variants(scan.arr) : ToLinkReference(b) = Result
    /\ Canonical(Result)

\* C17 witness: ToLinkReference has returned "a b" for "A<tab>b", whose
\* variants include " A<tab>b", "A<tab> b", "A b" and "a<tab>b".
C17_Witness ==
  /\ Done /\ scan.fn = "ToLinkReference"
  /\ scan.arr = <<65, 9, 98>>
  /\ Result = <<97, 32, 98>>
  /\ <<32, 65, 9, 98>> \in Variants(scan.arr)
  /\ <<65, 9, 32, 98>> \in Variants(scan.arr)
  /\ <<65, 32, 98>> \in Variants(scan.arr)
  /\ <<97, 9, 98>> \in Variants(scan.arr)

\* source with every maximal run of whitespace bytes replaced by one repl
RECURSIVE Collapsed(_, _)
Collapsed(source, repl) ==
  IF source = <<>> THEN <<>>
  ELSE IF IsSpace(Head(source))
    THEN << repl >>
         \o Collapsed(Sub(source, TrimLeft(source, Whitespace), Len(source)),
                      repl)
  ELSE << Head(source) >> \o Collapsed(Tail(source), repl)

\* C18: ReplaceSpaces(source, repl) returns source with every maximal run of
\* whitespace bytes (per IsSpace) replaced by exactly one repl and every
\* other byte copied, wherever the run lies: at the start, in the middle, at
\* the end, or when the whole input is one run.
C18_EveryRunReplaced ==
  (Done /\ scan.fn = "ReplaceSpaces") => Result = Collapsed(scan.arr, Repl)

-----------------------------------------------------------------------------
(* Every call runs to completion *)

\* The call has not returned yet; NextTransform is enabled in exactly these
\* states.
Running == scan.pc = "loop"

\* A call is run to its return, nothing else is scheduled in its place:
\* WF_vars(NextTransform), with ENABLED <<NextTransform>>_vars written as
\* Running.
SpecTransformLive ==
  SpecTransform /\ ([]<>~Running \/ []<><<NextTransform>>_vars)

\* The slice s lies inside its array.
InArray(s) ==
  s.len = 0 \/ (/\ s.arr \in 1..Len(bmem)
                /\ s.off >= 0 /\ s.len >= 0
                /\ s.off + s.len <= Len(bmem[s.arr]))

\* At the head of a loop the scan position and the start of the pending
\* text are inside the scanned slice, and the slice inside its array.
InBounds ==
  scan.pc = "loop" =>
    /\ 0 <= scan.n /\ scan.n <= scan.i /\ scan.i <= scan.v.len
    /\ InArray(scan.v)
    /\ InArray(cob.buffer)

\* One more iteration of the same loop has moved the scan position forward.
Progress ==
  (scan.pc = "loop" /\ scan'.pc = "loop" /\ scan'.stage = scan.stage) =>
    scan'.i > scan.i

\* C19: every call of EscapeHTML, UnescapePunctuations,
\* ResolveNumericReferences, ResolveEntityNames, DoFullUnicodeCaseFolding,
\* URLEscape and ToLinkReference, on every input, keeps its indexes in range,
\* moves the scan position strictly forward in each iteration of a loop
\* (also when a failed reference match resets it), and returns a slice.
C19_RunsToCompletion ==
  /\ [](InBounds /\ (Done => InArray(scan.ret)))
  /\ [][Progress]_vars
  /\ <>Done

\* C19 witness: ResolveNumericReferences has returned "&#10a" itself, after
\* the digits were read and the match failed for want of ';'.
C19_Witness ==
  /\ Done /\ scan.fn = "ResolveNumericReferences"
  /\ scan.arr = <<38, 35, 49, 48, 97>>
  /\ Result = scan.arr

-----------------------------------------------------------------------------
(* Filters derived from one base *)

\* Filter g was derived from the base of filter h, before h was.
ElderSibling(g, h) ==
  /\ g < h
  /\ meta[g].base # 0
  /\ meta'[h].base = meta[g].base

\* C20: after F2 = F1.Extend(x) and then F3 = F1.Extend(y), no answer of
\* F2.Contains is changed by the creation of F3 or by a later Add on F3,
\* whatever the buckets of x and y.
C20_SiblingsIndependent ==
  [][\A h \in 1..Len(filters') :
       ((Extended /\ h = Len(filters')) \/ (h <= Len(filters) /\ AddedTo(h))) =>
         \A g \in FilterIds :
           ElderSibling(g, h) =>
             \A x \in Probes :
               FilterContains(filters'[g], heap', x) = Contains(g, x)]_vars

-----------------------------------------------------------------------------
(* Recovery from a malformed numeric reference *)

\* A complete numeric reference starts at b[p]: the position of its ';', or
\* 0 when b[p] starts none.
RefEnd(b, p) ==
  LET ends == { e \in p..Len(b) : DecRefAt(b, p, e) \/ HexRefAt(b, p, e) }
  IN  IF ends = {} THEN 0 ELSE CHOOSE e \in ends : TRUE

\* What the complete reference b[p..e] is replaced by.
RefValue(b, p, e) ==
  LET v == IF b[p + 2] \in {120, 88}
           THEN ParseUint(SubSeq(b, p + 3, e - 1), 16)
           ELSE ParseUint(SubSeq(b, p + 2, e - 1), 0)
  IN  EncodeRune(ToValidRune(RuneOf(v)))

\* b from b[p] on, read from left to right: every complete reference
\* replaced, and every other byte, an '&' that starts no complete reference
\* among them, copied, the reading going on at the next byte.
RECURSIVE Recovered(_, _)
Recovered(b, p) ==
  IF p > Len(b) THEN <<>>
  ELSE IF RefEnd(b, p) # 0
    THEN RefValue(b, p, RefEnd(b, p)) \o Recovered(b, RefEnd(b, p) + 1)
  ELSE << b[p] >> \o Recovered(b, p + 1)

\* The scan of ResolveNumericReferences is at an '&' that starts no complete
\* reference.
AtFailedCandidate ==
  /\ Looping("ResolveNumericReferences")
  /\ Src(Frame)[scan.i + 1] = 38
  /\ RefEnd(Src(Frame), scan.i + 1) = 0

\* C21: an '&' that does not begin a complete numeric reference (8 or more
\* decimal digits, no digits, no ';', ...) is left in the text with the bytes
\* after it, nothing is written for it, and the scan goes on at the byte
\* right after that '&'; so the result is the input with exactly its
\* complete references replaced, those that start inside or after a failed
\* candidate included.
C21_MalformedRecoveredLocally ==
  /\ []((Done /\ scan.fn = "ResolveNumericReferences") =>
          Result = Recovered(scan.arr, 1))
  /\ [][AtFailedCandidate =>
          /\ scan'.pc = "loop" /\ scan'.stage = scan.stage
          /\ scan'.i = scan.i + 1
          /\ scan'.n = scan.n
          /\ cob' = cob /\ bmem' = bmem]_vars

\* C21 witness: "&#99999999;&#65;" has come back as "&#99999999;A", the
\* eight digits left as they are and the reference after them resolved.
C21_Witness ==
  /\ Done /\ scan.fn = "ResolveNumericReferences"
  /\ scan.arr = <<38, 35, 57, 57, 57, 57, 57, 57, 57, 57, 59,
                  38, 35, 54, 53, 59>>
  /\ Result = <<38, 35, 57, 57, 57, 57, 57, 57, 57, 57, 59, 65>>

=============================================================================
